---- MODULE Spec2Model ----
(***************************************************************************)
(* Model of src/vital_signs/predict_live.py: the directory watcher's       *)
(* NewFileHandler.on_created (dedup set guarded by a lock, one thread per  *)
(* new path), process_json_file (retry loop: sleep, size check, parse,     *)
(* per-entry vectorize / predict / enqueue, the two except clauses), the   *)
(* feature vectorizer inside it, and gui_queue.                            *)
(***************************************************************************)
EXTENDS Integers, Sequences, FiniteSets, TLC

\* ------------------------------------------------------------------ bounds
NumPaths == 2       \* distinct .json paths the watcher can see
NumCallers == 2     \* threads that may be inside on_created at once
MaxStarts == 2      \* cap on the count of threads started for one path
MaxWrites == 2      \* times the external writer changes a file
MaxFrames == 2      \* entries of a file's "data" sequence, one worker alone
PipeFrames == 1     \* entries of a file's "data" sequence, whole pipeline
MaxWave == 3        \* elements of a frame's waveform
SchemaWave == 2     \* waveform columns of each kind the model was trained on
OrderFrames == 3    \* entries of a file's "data" sequence, entry order alone

\* ------------------------------------------------------- program constants
retries == 3        \* process_json_file(json_file_path, retries=3, delay=10)

Paths == 1..NumPaths
Callers == 1..NumCallers

\* ------------------------------------------------------ python dict helpers
\* dict.get(k, default) on a dict modelled as a function over its keys
Get(d, k, default) == IF k \in DOMAIN d THEN d[k] ELSE default

\* An insertion-ordered dict is a sequence of <<key, value>> pairs.
DictKeys(d) == [i \in 1..Len(d) |-> d[i][1]]
HasKey(d, k) == \E i \in 1..Len(d) : d[i][1] = k
DictGet(d, k) == d[CHOOSE i \in 1..Len(d) : d[i][1] = k][2]
\* d[k] = v: an existing key keeps its position, a new key is appended
DictSet(d, k, v) ==
    IF HasKey(d, k)
    THEN [i \in 1..Len(d) |-> IF d[i][1] = k THEN <<k, v>> ELSE d[i]]
    ELSE Append(d, <<k, v>>)

\* f"heartWaveform_{i}" / f"breathWaveform_{i}"
FeatureName(prefix, i) == prefix \o "_" \o ToString(i)

\* model.feature_names_in_: the columns of the training table without the
\* target heartRate (model_training.py drops it): breathRate and the
\* flattened waveform columns.
feature_names_in_ ==
    <<"breathRate">>
    \o [i \in 1..SchemaWave |-> FeatureName("heartWaveform", i - 1)]
    \o [i \in 1..SchemaWave |-> FeatureName("breathWaveform", i - 1)]

\* ---------------------------------------------------------- the vectorizer
\* for i, value in enumerate(waveform): vitals_dict[f"{prefix}_{i}"] = value
\* The loop's assignments, in order: a key already in d is overwritten in
\* place, the others are appended in the order of the waveform.
WaveItems(prefix, waveform) ==
    [i \in 1..Len(waveform) |-> <<FeatureName(prefix, i - 1), waveform[i]>>]

Flatten(d, prefix, waveform) ==
    LET items == WaveItems(prefix, waveform)
    IN  [j \in 1..Len(d) |->
            IF HasKey(items, d[j][1]) THEN <<d[j][1], DictGet(items, d[j][1])>>
            ELSE d[j]]
        \o SelectSeq(items, LAMBDA x : ~HasKey(d, x[1]))

\* vitals_dict = {"heartRate": ..., "breathRate": ...} plus the two loops
BuildVitalsDict(vitals) ==
    LET d0 == << <<"heartRate", Get(vitals, "heartRate", "None")>>,
                 <<"breathRate", Get(vitals, "breathRate", "None")>> >>
        d1 == Flatten(d0, "heartWaveform", Get(vitals, "heartWaveform", <<>>))
    IN  Flatten(d1, "breathWaveform", Get(vitals, "breathWaveform", <<>>))

\* for col in model.feature_names_in_: if col not in vitals_dict: ... = 0.0
\* The columns the dict lacks are appended, in schema order, with 0.0.
FillMissing(d) ==
    d \o SelectSeq([i \in 1..Len(feature_names_in_) |-> <<feature_names_in_[i], "0.0">>],
                   LAMBDA x : ~HasKey(d, x[1]))

\* df = pd.DataFrame([vitals_dict]): one row, columns in insertion order
DataFrame(d) == d

\* Line 92 left out: the frame keeps every column the dict had.
SelectNothing(df) == [raised |-> "none", df |-> df]

\* df = df[model.feature_names_in_]: the schema's columns, in schema order;
\* KeyError when a column is not in the frame
SelectColumns(df) ==
    IF \A i \in 1..Len(feature_names_in_) : HasKey(df, feature_names_in_[i])
    THEN [raised |-> "none",
          df |-> [i \in 1..Len(feature_names_in_) |->
                     <<feature_names_in_[i], DictGet(df, feature_names_in_[i])>>]]
    ELSE [raised |-> "KeyError", df |-> <<>>]

\* lines 70-92: the frame that reaches model.predict
Vectorize(vitals) == SelectColumns(DataFrame(FillMissing(BuildVitalsDict(vitals))))

\* ------------------------------------------------------------- input space
WaveValues == {"0.5"}
Waveforms == UNION {[1..n -> WaveValues] : n \in 0..MaxWave}
Scalars == {"None", "72.0"}      \* JSON null, or a number
VitalsKeys == {"heartRate", "breathRate", "heartWaveform", "breathWaveform"}
FullVitals ==
    {[k \in VitalsKeys |->
        CASE k = "heartRate" -> hr
          [] k = "breathRate" -> br
          [] k = "heartWaveform" -> hw
          [] OTHER -> bw] :
     hr \in Scalars, br \in Scalars, hw \in Waveforms, bw \in Waveforms}
\* every non-empty vitals record: any subset of the four keys
AllVitals ==
    {[k \in K |-> v[k]] : v \in FullVitals, K \in (SUBSET VitalsKeys) \ {{}}}

\* The vitals record the pipeline's files carry.
SampleVitals ==
    [k \in VitalsKeys |->
        CASE k = "heartRate" -> "72.0"
          [] k = "breathRate" -> "72.0"
          [] k = "heartWaveform" -> <<"0.5">>
          [] OTHER -> <<"0.5">>]

PipeVitals == {SampleVitals}

\* What model.predict does with an entry's vector: returns, raises ValueError
\* (sklearn's input validation), or raises some other exception.  The adapter
\* is external, so its response is part of the input.
AdapterOutcomes == {"ok", "ValueError", "Exception"}

\* An entry of data["data"]: shape "vitals" when
\* entry.get("frameData", {}).get("vitals") is a non-empty record, "skip"
\* when that lookup is None or empty.
SkipEntry == [shape |-> "skip", vitals |-> <<>>, adapter |-> "ok"]
FrameEntries ==
    {[shape |-> "vitals", vitals |-> v, adapter |-> a] :
     v \in PipeVitals, a \in AdapterOutcomes}
Entries == {SkipEntry} \cup FrameEntries
DataSeqs(n) == UNION {[1..k -> Entries] : k \in 0..n}

\* What a path holds on disk: nothing, zero bytes, bytes that are not JSON, a
\* file that cannot be opened, JSON that is no object with a "data" list, or
\* the expected object with up to n entries.
NoFile == [kind |-> "missing", data |-> <<>>]
ContentsUpTo(n) ==
    {[kind |-> k, data |-> <<>>] :
        k \in {"missing", "empty", "malformed", "unreadable", "badshape"}}
    \cup {[kind |-> "valid", data |-> d] : d \in DataSeqs(n)}
FileContents == ContentsUpTo(MaxFrames)
PipeContents == ContentsUpTo(PipeFrames)

\* The observations kept of a worker (they record, they decide nothing):
\*   seen      how each attempt so far ended: "empty" (size 0), "syntax"
\*             (JSONDecodeError on a non-empty file), "truncated"
\*             (JSONDecodeError on a file emptied after the size check),
\*             "fatal" (line 113), "inference" (ValueError from an entry),
\*             "success"
\*   parsedIn  the first attempt whose json.load returned, 0 if none did
\*   last      the exception that ended the latest attempt, "none" if none
\*   delays    completed time.sleep(delay) calls
\*   opens     open() calls that returned
\*   puts      per entry index, gui_queue.put calls over all attempts
\*   okFrames  the entries of the latest parsed data whose vectorization and
\*             inference succeed
\*   putNow    the entries enqueued by the latest attempt that parsed
\*   failedAt  the entry whose failure ended that attempt, 0 if none
FrameCap == IF OrderFrames > MaxFrames THEN OrderFrames ELSE MaxFrames
NoObs ==
    [seen |-> {}, last |-> "none", delays |-> 0, opens |-> 0,
     puts |-> [i \in 1..FrameCap |-> 0], okFrames |-> {}, putNow |-> {},
     failedAt |-> 0, parsedIn |-> 0]

\* ------------------------------------------------------------------- state
VARIABLES
    processed_files,  \* NewFileHandler.processed_files
    lock,             \* NewFileHandler.lock: 0 when free, else the holder
    hpc,              \* per caller: position inside on_created
    hpath,            \* per caller: event.src_path
    started,          \* per path: process_json_file threads started
    files,            \* per path: the file on disk
    nWrites,          \* writes by the external writer so far
    wpc,              \* per path: position of its process_json_file thread
    attempt,          \* per path: the loop variable attempt
    data,             \* per path: data["data"] as parsed by this attempt
    idx,              \* per path: position in the entry loop
    gui_queue,        \* queue.Queue of results
    obs,              \* per path: observations of the worker (see NoObs)
    vpc,              \* vectorizer run: position
    vitals,           \* vectorizer run: the frame
    vitals_dict,      \* vectorizer run: the dict being built
    df,               \* vectorizer run: result of the column selection
    directory_exists, \* os.path.exists(live_data_directory) at start-up
    observer,         \* start_observer: "new", "running" or "returned"
    cpc,              \* process_gui_queue: "scheduled", "running" or "dead"
    got_log,          \* the results get_nowait has returned, in order
    heart_rate_var,   \* tk.StringVar shown as the heart rate
    breath_rate_var,  \* tk.StringVar shown as the breath rate
    poll              \* process_gui_queue: results forwarded by the run in
                      \* progress (got), and how the last completed run
                      \* went (last): "none", "empty" or "forwarded"

pipeVars == <<processed_files, lock, hpc, hpath, started, files,
              nWrites, wpc, attempt, data, idx, gui_queue, obs>>
vecVars == <<vpc, vitals, vitals_dict, df>>
\* the start-up of the watcher and the GUI side of the queue
hostVars == <<directory_exists, observer, cpc, got_log, heart_rate_var,
              breath_rate_var, poll>>
vars == <<pipeVars, vecVars, hostVars>>

InitPipe ==
    /\ processed_files = {}
    /\ lock = 0
    /\ hpc = [c \in Callers |-> "idle"]
    /\ hpath = [c \in Callers |-> 1]
    /\ started = [p \in Paths |-> 0]
    /\ files = [p \in Paths |-> NoFile]
    /\ nWrites = 0
    /\ wpc = [p \in Paths |-> "none"]
    /\ attempt = [p \in Paths |-> 0]
    /\ data = [p \in Paths |-> <<>>]
    /\ idx = [p \in Paths |-> 0]
    /\ gui_queue = <<>>
    /\ obs = [p \in Paths |-> NoObs]

InitVecIdle ==
    /\ vpc = "idle"
    /\ vitals = SampleVitals
    /\ vitals_dict = <<>>
    /\ df = [raised |-> "none", df |-> <<>>]

\* The watcher is running on an existing directory, the first poll of the
\* queue is scheduled (line 194) and the labels show their defaults.
InitHost ==
    /\ directory_exists = TRUE
    /\ observer = "running"
    /\ cpc = "scheduled"
    /\ got_log = <<>>
    /\ heart_rate_var = "Heart Rate: -- bpm"
    /\ breath_rate_var = "Breath Rate: -- breaths/min"
    /\ poll = [got |-> 0, last |-> "none"]

Init == InitPipe /\ InitVecIdle /\ InitHost

\* --------------------------------------------------------------- the writer
\* The radar tool (or anything else) creates, fills, rewrites or removes a
\* file.  A path whose worker has returned is never read again (the path
\* stays in processed_files), so writes to it are left out.
Write(p, c) ==
    /\ nWrites < MaxWrites
    /\ wpc[p] # "done"
    /\ files[p] # c
    /\ files' = [files EXCEPT ![p] = c]
    /\ nWrites' = nWrites + 1
    /\ UNCHANGED <<processed_files, lock, hpc, hpath, started, wpc,
                   attempt, data, idx, gui_queue, obs, vecVars, hostVars>>

\* --------------------------------------------------------------- on_created
\* if not event.is_directory and event.src_path.endswith('.json'):
Qualifies(is_directory, json) == ~is_directory /\ json

\* on_created without the lock: every caller walks straight in.
LockIgnored(c) == TRUE

\* with self.lock: (entry).  0 is the free lock.
LockFree(c) == lock = 0

\* on_created(event) for an event the filter of line 129 rejects: it returns.
\* Events come from the observer thread, so only once start_observer has
\* scheduled the handler and started the observer (lines 147-151).
OnCreatedIgnored(c, is_directory, json) ==
    /\ observer = "running"
    /\ hpc[c] = "idle"
    /\ ~Qualifies(is_directory, json)
    /\ UNCHANGED vars

\* on_created(event) for a qualifying event, up to and including the entry
\* of `with self.lock:`, which blocks while another caller holds the lock.
OnCreated(c, p, is_directory, json) ==
    /\ observer = "running"
    /\ hpc[c] = "idle"
    /\ Qualifies(is_directory, json)
    /\ LockFree(c)
    /\ lock' = c
    /\ hpc' = [hpc EXCEPT ![c] = "locked"]
    /\ hpath' = [hpath EXCEPT ![c] = p]
    /\ UNCHANGED <<processed_files, started, files, nWrites, wpc, attempt,
                   data, idx, gui_queue, obs, vecVars, hostVars>>

\* if event.src_path not in self.processed_files:
IsNew(path) == path \notin processed_files

\* The test of line 131, made while holding the lock (or believing so).
Test(c) ==
    /\ hpc[c] = "locked"
    /\ hpc' = [hpc EXCEPT ![c] = IF IsNew(hpath[c]) THEN "new" ELSE "known"]
    /\ UNCHANGED <<processed_files, lock, hpath, started, files, nWrites,
                   wpc, attempt, data, idx, gui_queue, obs, vecVars, hostVars>>

\* lock.acquire() without a release: the lock stays with the caller after
\* the thread has been started.
DispatchKeepsLock(c) ==
    LET path == hpath[c]
    IN  /\ hpc[c] \in {"new", "known"}
        /\ started[path] < MaxStarts
        /\ IF hpc[c] = "new"
           THEN /\ processed_files' = processed_files \cup {path}
                /\ started' = [started EXCEPT ![path] = @ + 1]
                /\ IF wpc[path] = "none"
                   THEN /\ wpc' = [wpc EXCEPT ![path] = "sleep"]
                        /\ attempt' = [attempt EXCEPT ![path] = 1]
                   ELSE UNCHANGED <<wpc, attempt>>
           ELSE UNCHANGED <<processed_files, started, wpc, attempt>>
        /\ lock' = lock
        /\ hpc' = [hpc EXCEPT ![c] = "idle"]
        /\ hpath' = [hpath EXCEPT ![c] = 1]
        /\ UNCHANGED <<files, nWrites, data, idx, gui_queue, obs, vecVars, hostVars>>

\* The rest of the `with self.lock:` body and the lock's release on leaving
\* it: for a new path, processed_files.add(path) and
\* threading.Thread(target=process_json_file, ...).start().
Dispatch(c) ==
    LET path == hpath[c]
    IN  /\ hpc[c] \in {"new", "known"}
        /\ started[path] < MaxStarts
        /\ IF hpc[c] = "new"
           THEN /\ processed_files' = processed_files \cup {path}
                /\ started' = [started EXCEPT ![path] = @ + 1]
                /\ IF wpc[path] = "none"
                   THEN /\ wpc' = [wpc EXCEPT ![path] = "sleep"]
                        /\ attempt' = [attempt EXCEPT ![path] = 1]
                   ELSE UNCHANGED <<wpc, attempt>>
           ELSE UNCHANGED <<processed_files, started, wpc, attempt>>
        /\ lock' = IF lock = c THEN 0 ELSE lock
        /\ hpc' = [hpc EXCEPT ![c] = "idle"]
        /\ hpath' = [hpath EXCEPT ![c] = 1]
        /\ UNCHANGED <<files, nWrites, data, idx, gui_queue, obs, vecVars, hostVars>>

\* -------------------------------------------------------- process_json_file
\* The exceptions the try block can raise here; all derive from Exception.
\* JSONDecodeError derives from ValueError; FileNotFoundError and
\* PermissionError from OSError.
Exceptions ==
    {"JSONDecodeError", "ValueError", "FileNotFoundError", "PermissionError",
     "AttributeError", "KeyError", "Exception"}

\* Line 113 continuing instead of breaking: every exception is retried.
ExceptRetryAll(exc) ==
    IF exc \in Exceptions THEN "retry" ELSE "propagate"

\* Line 107 catching JSONDecodeError alone: the ValueError of the empty-file
\* check falls through to line 113.
ExceptOnlyJSON(exc) ==
    IF exc = "JSONDecodeError" THEN "retry"
    ELSE IF exc \in Exceptions THEN "break"
    ELSE "propagate"

\* Which except clause takes an exception raised inside the try block:
\* line 107 (JSONDecodeError, ValueError) lets the for loop go on, line 113
\* (Exception) breaks out of it; anything else would leave the function.
ExceptClause(exc) ==
    IF exc \in {"JSONDecodeError", "ValueError"} THEN "retry"
    ELSE IF exc \in Exceptions THEN "break"
    ELSE "propagate"

\* `while True:` in place of the bounded for loop: a failed attempt is
\* repeated without counting.
NextAttemptForever(a) == [pc |-> "sleep", attempt |-> a]

\* range(1, retries + 2): one attempt too many.
NextAttemptOffByOne(a) ==
    IF a <= retries THEN [pc |-> "sleep", attempt |-> a + 1]
    ELSE [pc |-> "done", attempt |-> a]

\* for attempt in range(1, retries + 1): where the loop goes after an
\* iteration that ended in the except clause of line 107
NextAttempt(a) ==
    IF a < retries THEN [pc |-> "sleep", attempt |-> a + 1]
    ELSE [pc |-> "done", attempt |-> a]

\* The worker's position and loop variable after exc was raised in attempt a.
AfterException(a, exc) ==
    CASE ExceptClause(exc) = "retry" -> NextAttempt(a)
      [] ExceptClause(exc) = "break" -> [pc |-> "done", attempt |-> a]
      [] OTHER -> [pc |-> "crashed", attempt |-> a]

\* The break of line 105 left out: the loop goes on after a success.
AfterSuccessNoBreak(a) == NextAttempt(a)

\* line 105: break out of the retry loop once the file has been processed
AfterSuccess(a) == [pc |-> "done", attempt |-> a]

\* The size test inverted: a file with content is taken for an empty one.
GetSizeInverted(file) ==
    CASE file.kind = "missing" -> "FileNotFoundError"
      [] file.kind = "empty" -> "none"
      [] OTHER -> "ValueError"

\* os.path.getsize(path) == 0 -> raise ValueError("File is empty.")
GetSizeOutcome(file) ==
    CASE file.kind = "missing" -> "FileNotFoundError"
      [] file.kind = "empty" -> "ValueError"
      [] OTHER -> "none"

\* open(path, 'r'); json.load(file); data.get("data", [])
LoadOutcome(file) ==
    CASE file.kind = "missing" -> "FileNotFoundError"
      [] file.kind = "unreadable" -> "PermissionError"
      [] file.kind = "empty" -> "JSONDecodeError"
      [] file.kind = "malformed" -> "JSONDecodeError"
      [] file.kind = "badshape" -> "AttributeError"
      [] OTHER -> "none"

\* whether open() returned a file object
Opened(file) == file.kind \notin {"missing", "unreadable"}
\* whether json.load returned
Parsed(file) == file.kind \in {"badshape", "valid"}

\* How an attempt that ended by exc at the read stage is recorded.
ReadLabel(file, exc) ==
    CASE exc = "JSONDecodeError" /\ file.kind = "empty" -> "truncated"
      [] exc = "JSONDecodeError" -> "syntax"
      [] exc = "ValueError" -> "empty"
      [] OTHER -> "fatal"

\* print(f"Attempt {attempt} ..."); time.sleep(delay)
Sleep(p) ==
    /\ wpc[p] = "sleep"
    /\ wpc' = [wpc EXCEPT ![p] = "getsize"]
    /\ obs' = [obs EXCEPT ![p].delays = @ + 1]
    /\ UNCHANGED <<processed_files, lock, hpc, hpath, started, files,
                   nWrites, attempt, data, idx, gui_queue, vecVars, hostVars>>

\* if os.path.getsize(json_file_path) == 0: raise ValueError(...)
GetSize(p) ==
    LET exc == GetSizeOutcome(files[p])
        nxt == AfterException(attempt[p], exc)
    IN  /\ wpc[p] = "getsize"
        /\ IF exc = "none"
           THEN /\ wpc' = [wpc EXCEPT ![p] = "load"]
                /\ UNCHANGED <<attempt, obs>>
           ELSE /\ wpc' = [wpc EXCEPT ![p] = nxt.pc]
                /\ attempt' = [attempt EXCEPT ![p] = nxt.attempt]
                /\ obs' = [obs EXCEPT
                      ![p].seen = @ \cup {ReadLabel(files[p], exc)},
                      ![p].last = exc]
        /\ UNCHANGED <<processed_files, lock, hpc, hpath, started,
                       files, nWrites, data, idx, gui_queue, vecVars, hostVars>>

\* A wrapper around the adapter that answers with a default when it fails.
PredictSwallowsErrors(entry, vector) == "ok"

\* model.predict(df): what the adapter does with this entry's vector
Predict(entry, vector) == entry.adapter

\* A try/except around each entry that swallows whatever it raises.
FrameOutcomeSwallowed(entry) == "none"

\* The exception, if any, that processing one entry with vitals raises
\* (lines 70-95).  Lines 70-92 raise nothing: after the fill loop every
\* schema column is in the dict, so the column selection finds them all.
\* What is left is what model.predict raises.
FrameOutcome(entry) ==
    IF Predict(entry, Vectorize(entry.vitals)) = "ok" THEN "none"
    ELSE Predict(entry, Vectorize(entry.vitals))

\* if vitals: (line 69)
HasVitals(entry) == entry.shape = "vitals"

\* The entries of d that hold vitals and that the adapter answers.
OkFrames(d) == {i \in 1..Len(d) : d[i].shape = "vitals" /\ d[i].adapter = "ok"}

\* with open(...) as file: data = json.load(file); then the head of the
\* entry loop, data.get("data", [])
Load(p) ==
    LET exc == LoadOutcome(files[p])
        nxt == AfterException(attempt[p], exc)
        o0 == IF Opened(files[p]) THEN [obs[p] EXCEPT !.opens = @ + 1] ELSE obs[p]
        o1 == IF Parsed(files[p]) /\ o0.parsedIn = 0
              THEN [o0 EXCEPT !.parsedIn = attempt[p]] ELSE o0
    IN  /\ wpc[p] = "load"
        /\ IF exc = "none"
           THEN /\ wpc' = [wpc EXCEPT ![p] = "frames"]
                /\ data' = [data EXCEPT ![p] = files[p].data]
                /\ idx' = [idx EXCEPT ![p] = 1]
                /\ obs' = [obs EXCEPT ![p] =
                      [o1 EXCEPT !.okFrames = OkFrames(files[p].data),
                                 !.putNow = {}, !.failedAt = 0, !.last = "none"]]
                /\ UNCHANGED attempt
           ELSE /\ wpc' = [wpc EXCEPT ![p] = nxt.pc]
                /\ attempt' = [attempt EXCEPT ![p] = nxt.attempt]
                /\ obs' = [obs EXCEPT ![p] =
                      [o1 EXCEPT
                         !.seen = @ \cup {ReadLabel(files[p], exc)},
                         !.last = exc]]
                /\ UNCHANGED <<data, idx>>
        /\ UNCHANGED <<processed_files, lock, hpc, hpath, started,
                       files, nWrites, gui_queue, vecVars, hostVars>>

\* (predictions[0], vitals.get("breathRate", 0.0)); file and frame record
\* where the result came from.
Result(p, i, entry) ==
    [heart_rate |-> "prediction",
     breath_rate |-> Get(entry.vitals, "breathRate", "0.0"),
     file |-> p, frame |-> i]

\* `for entry in data.get("data", [])` is exhausted: the success print and
\* the break of line 105.
FrameEnd(p) ==
    /\ wpc[p] = "frames"
    /\ idx[p] > Len(data[p])
    /\ wpc' = [wpc EXCEPT ![p] = AfterSuccess(attempt[p]).pc]
    /\ attempt' = [attempt EXCEPT ![p] = AfterSuccess(attempt[p]).attempt]
    /\ obs' = [obs EXCEPT ![p].seen = @ \cup {"success"}]
    /\ data' = [data EXCEPT ![p] = <<>>]
    /\ idx' = [idx EXCEPT ![p] = 0]
    /\ UNCHANGED <<processed_files, lock, hpc, hpath, started, files, nWrites,
                   gui_queue, vecVars, hostVars>>

\* An entry without vitals ending the entry loop, as if it were the last.
FrameSkipBreaks(p) ==
    /\ wpc[p] = "frames"
    /\ idx[p] <= Len(data[p])
    /\ ~HasVitals(data[p][idx[p]])
    /\ wpc' = [wpc EXCEPT ![p] = "done"]
    /\ obs' = [obs EXCEPT ![p].seen = @ \cup {"success"}]
    /\ data' = [data EXCEPT ![p] = <<>>]
    /\ idx' = [idx EXCEPT ![p] = 0]
    /\ UNCHANGED <<processed_files, lock, hpc, hpath, started, files, nWrites,
                   attempt, gui_queue, vecVars, hostVars>>

\* One turn of the entry loop on an entry without vitals: line 69 is false.
FrameSkip(p) ==
    /\ wpc[p] = "frames"
    /\ idx[p] <= Len(data[p])
    /\ ~HasVitals(data[p][idx[p]])
    /\ idx' = [idx EXCEPT ![p] = @ + 1]
    /\ UNCHANGED <<processed_files, lock, hpc, hpath, started, files, nWrites,
                   wpc, attempt, data, gui_queue, obs, vecVars, hostVars>>

\* One turn of the entry loop on an entry with vitals that is vectorized,
\* predicted and enqueued (lines 70-101).
FramePut(p) ==
    /\ wpc[p] = "frames"
    /\ idx[p] <= Len(data[p])
    /\ HasVitals(data[p][idx[p]])
    /\ FrameOutcome(data[p][idx[p]]) = "none"
    /\ gui_queue' = Append(gui_queue, Result(p, idx[p], data[p][idx[p]]))
    /\ obs' = [obs EXCEPT ![p].puts[idx[p]] = @ + 1,
                          ![p].putNow = @ \cup {idx[p]}]
    /\ idx' = [idx EXCEPT ![p] = @ + 1]
    /\ UNCHANGED <<processed_files, lock, hpc, hpath, started, files, nWrites,
                   wpc, attempt, data, vecVars, hostVars>>

\* One turn of the entry loop in which lines 70-95 raise: control goes to
\* the except clauses, the rest of the entries is not looked at.
FrameRaise(p) ==
    /\ wpc[p] = "frames"
    /\ idx[p] <= Len(data[p])
    /\ HasVitals(data[p][idx[p]])
    /\ FrameOutcome(data[p][idx[p]]) # "none"
    /\ wpc' = [wpc EXCEPT ![p] =
                  AfterException(attempt[p], FrameOutcome(data[p][idx[p]])).pc]
    /\ attempt' = [attempt EXCEPT ![p] =
                  AfterException(attempt[p], FrameOutcome(data[p][idx[p]])).attempt]
    /\ obs' = [obs EXCEPT
          ![p].seen = @ \cup {IF FrameOutcome(data[p][idx[p]]) = "ValueError"
                              THEN "inference" ELSE "fatal"},
          ![p].last = FrameOutcome(data[p][idx[p]]),
          ![p].failedAt = idx[p]]
    /\ data' = [data EXCEPT ![p] = <<>>]
    /\ idx' = [idx EXCEPT ![p] = 0]
    /\ UNCHANGED <<processed_files, lock, hpc, hpath, started, files, nWrites,
                   gui_queue, vecVars, hostVars>>

\* The entry loop of lines 66-105.
Frame(p) == FrameEnd(p) \/ FrameSkip(p) \/ FramePut(p) \/ FrameRaise(p)

Worker(p) == Sleep(p) \/ GetSize(p) \/ Load(p) \/ Frame(p)

\* ------------------------------------------------------------ specification
\* The whole pipeline from program start: no file exists, nothing dispatched.
Next ==
    \/ \E p \in Paths, c \in PipeContents : Write(p, c)
    \/ \E c \in Callers, d \in BOOLEAN, j \in BOOLEAN :
          OnCreatedIgnored(c, d, j)
    \/ \E c \in Callers, p \in Paths, d \in BOOLEAN, j \in BOOLEAN :
          OnCreated(c, p, d, j)
    \/ \E c \in Callers : Test(c)
    \/ \E c \in Callers : Dispatch(c)
    \/ \E p \in Paths : Sleep(p)
    \/ \E p \in Paths : GetSize(p)
    \/ \E p \in Paths : Load(p)
    \/ \E p \in Paths : Frame(p)

Spec == Init /\ [][Next]_vars

\* The pipeline over files that are in place before the first event and are
\* not touched afterwards.
InitStatic ==
    /\ InitVecIdle
    /\ InitHost
    /\ processed_files = {}
    /\ lock = 0
    /\ hpc = [c \in Callers |-> "idle"]
    /\ hpath = [c \in Callers |-> 1]
    /\ started = [p \in Paths |-> 0]
    /\ files \in [Paths -> PipeContents]
    /\ nWrites = 0
    /\ wpc = [p \in Paths |-> "none"]
    /\ attempt = [p \in Paths |-> 0]
    /\ data = [p \in Paths |-> <<>>]
    /\ idx = [p \in Paths |-> 0]
    /\ gui_queue = <<>>
    /\ obs = [p \in Paths |-> NoObs]

NextStatic ==
    \/ \E c \in Callers, d \in BOOLEAN, j \in BOOLEAN :
          OnCreatedIgnored(c, d, j)
    \/ \E c \in Callers, p \in Paths, d \in BOOLEAN, j \in BOOLEAN :
          OnCreated(c, p, d, j)
    \/ \E c \in Callers : Test(c)
    \/ \E c \in Callers : Dispatch(c)
    \/ \E p \in Paths : Sleep(p)
    \/ \E p \in Paths : GetSize(p)
    \/ \E p \in Paths : Load(p)
    \/ \E p \in Paths : Frame(p)

\* Every started thread is scheduled again and again: a worker that can take
\* a step eventually takes one.
SpecStatic ==
    InitStatic /\ [][NextStatic]_vars /\ \A p \in Paths : WF_vars(Worker(p))

\* One invocation of process_json_file, on the first path, while the writer
\* changes the file under it: the state right after on_created started the
\* thread.
ThePath == CHOOSE p \in Paths : \A q \in Paths : p <= q

InitFile ==
    /\ InitVecIdle
    /\ InitHost
    /\ processed_files = {ThePath}
    /\ lock = 0
    /\ hpc = [c \in Callers |-> "idle"]
    /\ hpath = [c \in Callers |-> 1]
    /\ started = [p \in Paths |-> IF p = ThePath THEN 1 ELSE 0]
    /\ files \in {[p \in Paths |-> IF p = ThePath THEN c ELSE NoFile] :
                     c \in FileContents}
    /\ nWrites = 0
    /\ wpc = [p \in Paths |-> IF p = ThePath THEN "sleep" ELSE "none"]
    /\ attempt = [p \in Paths |-> IF p = ThePath THEN 1 ELSE 0]
    /\ data = [p \in Paths |-> <<>>]
    /\ idx = [p \in Paths |-> 0]
    /\ gui_queue = <<>>
    /\ obs = [p \in Paths |-> NoObs]

NextFile ==
    \/ \E c \in FileContents : Write(ThePath, c)
    \/ Sleep(ThePath)
    \/ GetSize(ThePath)
    \/ Load(ThePath)
    \/ Frame(ThePath)

SpecFile == InitFile /\ [][NextFile]_vars

\* The same invocation with its thread scheduled again and again.
SpecFileFair == SpecFile /\ WF_vars(Worker(ThePath))

\* One run of the vectorizer of lines 70-95 on any vitals record.
InitVec ==
    /\ InitPipe
    /\ InitHost
    /\ vpc = "build"
    /\ vitals \in AllVitals
    /\ vitals_dict = <<>>
    /\ df = [raised |-> "none", df |-> <<>>]

\* lines 70-83
VBuild ==
    /\ vpc = "build"
    /\ vitals_dict' = BuildVitalsDict(vitals)
    /\ vpc' = "fill"
    /\ UNCHANGED <<pipeVars, vitals, df, hostVars>>

\* lines 86-88
VFill ==
    /\ vpc = "fill"
    /\ vitals_dict' = FillMissing(vitals_dict)
    /\ vpc' = "select"
    /\ UNCHANGED <<pipeVars, vitals, df, hostVars>>

\* lines 91-92
VSelect ==
    /\ vpc = "select"
    /\ df' = SelectColumns(DataFrame(vitals_dict))
    /\ vpc' = IF df'.raised = "none" THEN "predict" ELSE "raised"
    /\ UNCHANGED <<pipeVars, vitals, vitals_dict, hostVars>>

\* line 95: model.predict(df)
VPredict ==
    /\ vpc = "predict"
    /\ vpc' = "done"
    /\ UNCHANGED <<pipeVars, vitals, vitals_dict, df, hostVars>>

NextVec == VBuild \/ VFill \/ VSelect \/ VPredict

SpecVec == InitVec /\ [][NextVec]_vars

\* ----------------------------------------------------------- start_observer
\* The existence test of line 143 left out: the observer is started anyway.
StartOutcomeUnchecked(exists) == "running"

\* if not os.path.exists(live_data_directory): print(...); return
\* otherwise the handler is scheduled and the observer started (147-151).
StartOutcome(exists) == IF exists THEN "running" ELSE "returned"

StartObserver ==
    /\ observer = "new"
    /\ observer' = StartOutcome(directory_exists)
    /\ UNCHANGED <<pipeVars, vecVars, directory_exists, cpc, got_log,
                   heart_rate_var, breath_rate_var, poll>>

\* -------------------------------------------------------- process_gui_queue
\* get_nowait() that leaves the item in the queue.
GetNowaitPeek(q) ==
    IF q = <<>> THEN [raised |-> "Empty", item |-> <<>>, rest |-> q]
    ELSE [raised |-> "none", item |-> Head(q), rest |-> q]

\* get() in place of get_nowait(): on an empty queue the call blocks until a
\* producer puts something.
GetBlocking(q) ==
    IF q = <<>> THEN [raised |-> "blocked", item |-> <<>>, rest |-> q]
    ELSE [raised |-> "none", item |-> Head(q), rest |-> Tail(q)]

\* gui_queue.get_nowait(): the oldest item, removed; queue.Empty when there
\* is none.
GetNowait(q) ==
    IF q = <<>> THEN [raised |-> "Empty", item |-> <<>>, rest |-> q]
    ELSE [raised |-> "none", item |-> Head(q), rest |-> Tail(q)]

\* f"{x:.2f}": a float is rendered with two decimals ("72.0" -> "72.00", the
\* model's prediction as itself); None has no float format: TypeError.
Format2f(x) ==
    IF x = "None" THEN [raised |-> "TypeError", text |-> ""]
    ELSE IF x = "prediction" THEN [raised |-> "none", text |-> x]
    ELSE [raised |-> "none", text |-> x \o "0"]

\* update_vital_signs_in_gui: line 36 sets the heart rate label, then line 37
\* the breath rate label; a format error leaves the later labels as they were.
update_vital_signs_in_gui(heart_rate, breath_rate) ==
    LET h == Format2f(heart_rate)
        b == Format2f(breath_rate)
    IN  IF h.raised # "none"
        THEN [raised |-> h.raised, heart |-> heart_rate_var,
              breath |-> breath_rate_var]
        ELSE IF b.raised # "none"
        THEN [raised |-> b.raised,
              heart |-> "Heart Rate: " \o h.text \o " bpm",
              breath |-> breath_rate_var]
        ELSE [raised |-> "none",
              heart |-> "Heart Rate: " \o h.text \o " bpm",
              breath |-> "Breath Rate: " \o b.text \o " breaths/min"]

\* Tk runs the callback that root.after(100, process_gui_queue) scheduled.
Tick ==
    /\ cpc = "scheduled"
    /\ cpc' = "running"
    /\ poll' = [poll EXCEPT !.got = 0]
    /\ UNCHANGED <<pipeVars, vecVars, directory_exists, observer, got_log,
                   heart_rate_var, breath_rate_var>>

\* One turn of `while True:` that gets an item (lines 166-167).  An exception
\* of update_vital_signs_in_gui is not queue.Empty: it leaves the callback
\* before line 170, so nothing schedules the next run.
ConsumerGet ==
    LET g == GetNowait(gui_queue)
        u == update_vital_signs_in_gui(g.item.heart_rate, g.item.breath_rate)
    IN  /\ cpc = "running"
        /\ g.raised = "none"
        /\ gui_queue' = g.rest
        /\ got_log' = Append(got_log, g.item)
        /\ heart_rate_var' = u.heart
        /\ breath_rate_var' = u.breath
        /\ cpc' = IF u.raised = "none" THEN "running" ELSE "dead"
        /\ poll' = IF u.raised = "none" THEN [poll EXCEPT !.got = @ + 1] ELSE poll
        /\ UNCHANGED <<processed_files, lock, hpc, hpath, started, files,
                       nWrites, wpc, attempt, data, idx, obs, vecVars,
                       directory_exists, observer>>

\* The turn in which get_nowait raises queue.Empty: `pass`, then line 170
\* schedules the next run.
ConsumerEmpty ==
    /\ cpc = "running"
    /\ GetNowait(gui_queue).raised = "Empty"
    /\ cpc' = "scheduled"
    /\ poll' = [poll EXCEPT !.last = IF poll.got = 0 THEN "empty" ELSE "forwarded"]
    /\ UNCHANGED <<pipeVars, vecVars, directory_exists, observer, got_log,
                   heart_rate_var, breath_rate_var>>

Consumer == Tick \/ ConsumerGet \/ ConsumerEmpty

\* Workers and the consumer: every path has just been dispatched on a file
\* that is in place and stays as it is; the frames differ in their breath
\* rate (a number, null, absent), one kind of frame makes the adapter fail
\* and one kind of entry has no vitals.
GuiFrames == 2
NullBreathVitals == [SampleVitals EXCEPT !["breathRate"] = "None"]
NoBreathVitals ==
    [k \in VitalsKeys \ {"breathRate"} |-> SampleVitals[k]]
GuiEntries ==
    {[shape |-> "vitals", vitals |-> v, adapter |-> "ok"] :
        v \in {SampleVitals, NullBreathVitals, NoBreathVitals}}
    \cup {[shape |-> "vitals", vitals |-> SampleVitals, adapter |-> "Exception"]}
    \cup {SkipEntry}
GuiContents ==
    {[kind |-> "valid", data |-> d] :
        d \in UNION {[1..k -> GuiEntries] : k \in 0..GuiFrames}}

InitGui ==
    /\ InitVecIdle
    /\ InitHost
    /\ processed_files = Paths
    /\ lock = 0
    /\ hpc = [c \in Callers |-> "idle"]
    /\ hpath = [c \in Callers |-> 1]
    /\ started = [p \in Paths |-> 1]
    /\ files \in [Paths -> GuiContents]
    /\ nWrites = 0
    /\ wpc = [p \in Paths |-> "sleep"]
    /\ attempt = [p \in Paths |-> 1]
    /\ data = [p \in Paths |-> <<>>]
    /\ idx = [p \in Paths |-> 0]
    /\ gui_queue = <<>>
    /\ obs = [p \in Paths |-> NoObs]

NextGui ==
    \/ \E p \in Paths : Sleep(p)
    \/ \E p \in Paths : GetSize(p)
    \/ \E p \in Paths : Load(p)
    \/ \E p \in Paths : Frame(p)
    \/ Tick
    \/ ConsumerGet
    \/ ConsumerEmpty

SpecGui == InitGui /\ [][NextGui]_vars

\* The pipeline from the start of the observer thread (line 190): the watched
\* directory is there or not, the files are in place.
InitStart ==
    /\ InitVecIdle
    /\ InitPipe
    /\ directory_exists \in BOOLEAN
    /\ observer = "new"
    /\ cpc = "scheduled"
    /\ got_log = <<>>
    /\ heart_rate_var = "Heart Rate: -- bpm"
    /\ breath_rate_var = "Breath Rate: -- breaths/min"
    /\ poll = [got |-> 0, last |-> "none"]

NextStart ==
    \/ StartObserver
    \/ \E p \in Paths, c \in PipeContents : Write(p, c)
    \/ \E c \in Callers, d \in BOOLEAN, j \in BOOLEAN :
          OnCreatedIgnored(c, d, j)
    \/ \E c \in Callers, p \in Paths, d \in BOOLEAN, j \in BOOLEAN :
          OnCreated(c, p, d, j)
    \/ \E c \in Callers : Test(c)
    \/ \E c \in Callers : Dispatch(c)
    \/ \E p \in Paths : Sleep(p)
    \/ \E p \in Paths : GetSize(p)
    \/ \E p \in Paths : Load(p)
    \/ \E p \in Paths : Frame(p)

SpecStart == InitStart /\ [][NextStart]_vars

\* One invocation on a file of up to OrderFrames entries that stays as it is.
InitOrder ==
    /\ InitVecIdle
    /\ InitHost
    /\ processed_files = {ThePath}
    /\ lock = 0
    /\ hpc = [c \in Callers |-> "idle"]
    /\ hpath = [c \in Callers |-> 1]
    /\ started = [p \in Paths |-> IF p = ThePath THEN 1 ELSE 0]
    /\ files \in {[p \in Paths |-> IF p = ThePath THEN c ELSE NoFile] :
                     c \in ContentsUpTo(OrderFrames)}
    /\ nWrites = 0
    /\ wpc = [p \in Paths |-> IF p = ThePath THEN "sleep" ELSE "none"]
    /\ attempt = [p \in Paths |-> IF p = ThePath THEN 1 ELSE 0]
    /\ data = [p \in Paths |-> <<>>]
    /\ idx = [p \in Paths |-> 0]
    /\ gui_queue = <<>>
    /\ obs = [p \in Paths |-> NoObs]

NextOrder ==
    \/ Sleep(ThePath)
    \/ GetSize(ThePath)
    \/ Load(ThePath)
    \/ Frame(ThePath)

SpecOrder == InitOrder /\ [][NextOrder]_vars

\* ------------------------------------------------------------------ claims
RECURSIVE SumTo(_, _)
SumTo(f, n) == IF n = 0 THEN 0 ELSE f[n] + SumTo(f, n - 1)
\* gui_queue.put calls made for path p so far
PutCount(p) == SumTo(obs[p].puts, FrameCap)
\* results in the queue that came from a path of S
FromFiles(S) == Cardinality({i \in 1..Len(gui_queue) : gui_queue[i].file \in S})

\* C1: at most one process_json_file thread is ever started for a path, under
\* any interleaving of duplicate and concurrent on_created calls, and a path
\* that was dispatched stays in processed_files (a file that failed or was
\* given up on is not dispatched again).
C1_AtMostOneProcessor ==
    \A p \in Paths :
        /\ started[p] <= 1
        /\ started[p] = 1 <=> p \in processed_files

\* A worker is finished with its file (here: it failed or gave up) and a
\* later event for the same path has been tested and found known.
C1_Witness ==
    \E p \in Paths, c \in Callers :
        /\ wpc[p] = "done" /\ PutCount(p) = 0
        /\ hpc[c] = "known" /\ hpath[c] = p
        /\ started[p] = 1

\* A valid single-frame file: parseable, exactly one entry with vitals, and
\* the adapter answers it.
ValidSingle(f) ==
    /\ f.kind = "valid"
    /\ Cardinality({i \in 1..Len(f.data) : HasVitals(f.data[i])}) = 1
    /\ \A i \in 1..Len(f.data) : HasVitals(f.data[i]) => f.data[i].adapter = "ok"

\* C2: when the files of a set S of paths are valid single-frame files and
\* all of them have been dispatched, then (workers being scheduled fairly)
\* eventually every worker of S is done and the queue has received exactly
\* one result from each file of S, |S| in total.
C2_KFilesKResults ==
    \A S \in (SUBSET Paths) \ {{}} :
        (\A p \in S : ValidSingle(files[p]) /\ started[p] = 1)
        ~> (/\ \A p \in S : wpc[p] = "done" /\ PutCount(p) = 1
            /\ FromFiles(S) = Cardinality(S))

\* Every path holds a valid single-frame file, every worker is done, and the
\* queue holds one result per file.
C2_Witness ==
    /\ \A p \in Paths : ValidSingle(files[p]) /\ wpc[p] = "done" /\ PutCount(p) = 1
    /\ Len(gui_queue) = NumPaths

\* C3: a file that is non-empty and fails JSON parsing at every attempt gets
\* exactly `retries` attempts (the attempt counter never passes retries),
\* each of which opens and tries to parse it, and no result is enqueued.
C3_MalformedExhaustsRetries ==
    \A p \in Paths :
        /\ attempt[p] <= retries
        /\ (wpc[p] = "done" /\ obs[p].seen = {"syntax"}) =>
              /\ attempt[p] = retries
              /\ obs[p].opens = retries
              /\ obs[p].delays = retries
              /\ PutCount(p) = 0

C3_Witness ==
    \E p \in Paths : wpc[p] = "done" /\ obs[p].seen = {"syntax"}

\* C4: a file of size zero at every attempt gets exactly `retries` attempts,
\* none of which opens or parses it, and no result is enqueued.
C4_EmptyExhaustsRetries ==
    \A p \in Paths :
        (wpc[p] = "done" /\ obs[p].seen = {"empty"}) =>
            /\ attempt[p] = retries
            /\ obs[p].delays = retries
            /\ obs[p].opens = 0
            /\ obs[p].parsedIn = 0
            /\ PutCount(p) = 0

C4_Witness ==
    \E p \in Paths : wpc[p] = "done" /\ obs[p].seen = {"empty"}

\* The attempts of p so far failed at the read stage only, one of them on a
\* zero-length file, and the latest one read a valid single-frame file.
EmptyThenValid(p) ==
    /\ "empty" \in obs[p].seen
    /\ obs[p].seen \subseteq {"empty", "syntax", "truncated", "success"}
    /\ obs[p].parsedIn > 0
    /\ Cardinality(obs[p].okFrames) = 1
    /\ obs[p].failedAt = 0

\* C5: a file that is zero-length when first looked at and valid
\* single-frame at a later attempt (within retries) yields exactly one
\* result; the attempt that succeeds is the last one; and at least one delay
\* has been completed when the result is enqueued.
C5_EmptyThenValidOnce ==
    \A p \in Paths :
        /\ (EmptyThenValid(p) /\ wpc[p] = "done") =>
              /\ PutCount(p) = 1
              /\ "success" \in obs[p].seen
              /\ attempt[p] = obs[p].parsedIn
        /\ "success" \in obs[p].seen => wpc[p] = "done"
        /\ PutCount(p) >= 1 => obs[p].delays >= 1

C5_Witness ==
    \E p \in Paths :
        /\ EmptyThenValid(p) /\ wpc[p] = "done"
        /\ attempt[p] >= 2 /\ attempt[p] <= retries
        /\ PutCount(p) = 1

\* The exceptions that line 107 does not catch: they reach line 113.
FatalErrors == Exceptions \ {"JSONDecodeError", "ValueError"}

C7_NoRetryAfterParse ==
    \A p \in Paths :
        obs[p].parsedIn > 0 => attempt[p] = obs[p].parsedIn

\* The entries of the latest parsed data before position i that succeed.
OkBefore(p, i) == {j \in obs[p].okFrames : j < i}

\* C8: a failure while vectorizing or inferring entry fi ends the attempt at
\* fi.  The entries before fi that succeed have been enqueued by that
\* attempt, in order, and no entry after fi is processed in it; while the
\* entry loop runs, exactly the succeeding entries before the current
\* position have been enqueued.
C8_FailureEndsAttemptAtFrame ==
    \A p \in Paths :
        /\ obs[p].failedAt > 0 =>
              /\ obs[p].failedAt \notin obs[p].okFrames
              /\ obs[p].putNow = OkBefore(p, obs[p].failedAt)
        /\ wpc[p] = "frames" => obs[p].putNow = OkBefore(p, idx[p])

\* An attempt failed at its first entry while a later entry of the same file
\* would have succeeded; that entry was not enqueued.
C8_Witness ==
    \E p \in Paths :
        /\ nWrites = 0
        /\ wpc[p] = "done"
        /\ obs[p].failedAt = 1
        /\ 2 \in obs[p].okFrames
        /\ obs[p].puts[2] = 0

\* C8 as stated: when an entry of a file fails, every other entry of that
\* file that succeeds on its own still has its result enqueued.
C8_SiblingFramesStillYield ==
    \A p \in Paths :
        (nWrites = 0 /\ wpc[p] = "done" /\ obs[p].failedAt > 0) =>
            \A j \in obs[p].okFrames : obs[p].puts[j] >= 1

\* C9: over all attempts of one invocation on a file that does not change,
\* each entry is enqueued at most once, and exactly once when the invocation
\* ended in success.
C9_OncePerFrame ==
    \A p \in Paths :
        nWrites = 0 =>
            /\ \A i \in 1..MaxFrames : obs[p].puts[i] <= 1
            /\ (wpc[p] = "done" /\ "success" \in obs[p].seen) =>
                  \A i \in obs[p].okFrames : obs[p].puts[i] = 1

\* C10: whatever keys and waveform lengths the frame supplies, the column
\* selection raises nothing and the frame handed to model.predict has the
\* columns of model.feature_names_in_, all of them, nothing else, in that
\* order.
C10_VectorMatchesSchema ==
    /\ vpc # "raised"
    /\ vpc \in {"predict", "done"} =>
          /\ df.raised = "none"
          /\ DictKeys(df.df) = feature_names_in_

\* A frame with heartRate, without breathRate, with one waveform longer than
\* the schema and the other absent, has been through predict.
C10_Witness ==
    /\ vpc = "done"
    /\ "heartRate" \in DOMAIN vitals
    /\ "breathRate" \notin DOMAIN vitals
    /\ "breathWaveform" \notin DOMAIN vitals
    /\ "heartWaveform" \in DOMAIN vitals
    /\ Len(vitals["heartWaveform"]) > SchemaWave

\* What the claim expects in column i of the frame built from vitals record
\* v: the frame's own value when it supplies one, 0.0 otherwise.
ExpectedValue(v, i) ==
    LET hw == Get(v, "heartWaveform", <<>>)
        bw == Get(v, "breathWaveform", <<>>)
    IN  IF i = 1
        THEN IF Get(v, "breathRate", "None") # "None" THEN v["breathRate"] ELSE "0.0"
        ELSE IF i <= 1 + SchemaWave
        THEN IF i - 1 <= Len(hw) THEN hw[i - 1] ELSE "0.0"
        ELSE IF i - 1 - SchemaWave <= Len(bw) THEN bw[i - 1 - SchemaWave] ELSE "0.0"

\* C11: every column of the frame handed to model.predict holds the frame's
\* value when the frame supplies one and 0.0 when it does not (scalar missing
\* or null, waveform shorter than the column's index); no column holds None.
C11_SuppliedOrZero ==
    vpc \in {"predict", "done"} =>
        /\ Len(df.df) = Len(feature_names_in_)
        /\ \A i \in 1..Len(df.df) :
              /\ df.df[i][2] = ExpectedValue(vitals, i)
              /\ df.df[i][2] # "None"

\* Every result put so far, in the order of the puts: what the consumer has
\* taken, then what is still queued.
PutHistory == got_log \o gui_queue

\* C12: a get takes the oldest queued result and removes it, so that every
\* result put is handed out at most once and, while it has not been, is still
\* queued: the sequence of results taken followed by the queue only ever
\* grows at its end, by the put of a producer.  Within it the results of one
\* File Processor stand in the order of their frames, each once, whatever the
\* interleaving of the producers and the consumer.
C12_QueueHandsOutOnceInOrder ==
    /\ [](\A i, j \in 1..Len(PutHistory) :
            (i < j /\ PutHistory[i].file = PutHistory[j].file) =>
                PutHistory[i].frame < PutHistory[j].frame)
    /\ [][/\ \/ PutHistory' = PutHistory
             \/ /\ Len(PutHistory') = Len(PutHistory) + 1
                /\ SubSeq(PutHistory', 1, Len(PutHistory)) = PutHistory
                /\ got_log' = got_log
          /\ \/ got_log' = got_log
             \/ /\ gui_queue # <<>>
                /\ got_log' = Append(got_log, Head(gui_queue))
                /\ gui_queue' = Tail(gui_queue)]_vars

\* The consumer has taken two results of one producer and, between them, one
\* of the other producer, while a further result waits in the queue.
C12_Witness ==
    /\ Len(got_log) >= 3
    /\ got_log[1].file = got_log[3].file
    /\ got_log[2].file # got_log[1].file
    /\ got_log[1].frame < got_log[3].frame
    /\ gui_queue # <<>>

\* C13: a turn of process_gui_queue that finds the queue empty does not wait:
\* it can always be taken, it forwards nothing (labels and the log of results
\* taken stay as they are), leaves the queue empty and schedules the next
\* run; a run that forwarded nothing is recorded as "empty" only then.
C13_EmptyDrainReturns ==
    /\ []((cpc = "running" /\ gui_queue = <<>>) => ENABLED ConsumerEmpty)
    /\ [][(cpc = "running" /\ gui_queue = <<>> /\ hostVars' # hostVars) =>
              /\ cpc' = "scheduled"
              /\ gui_queue' = <<>>
              /\ got_log' = got_log
              /\ heart_rate_var' = heart_rate_var
              /\ breath_rate_var' = breath_rate_var
              /\ poll'.last = IF poll.got = 0 THEN "empty" ELSE "forwarded"]_vars

\* A whole run found the queue empty at its first get while a producer is
\* still at work: nothing was forwarded and the next run is scheduled.
C13_Witness ==
    /\ poll.last = "empty"
    /\ cpc = "scheduled"
    /\ got_log = <<>>
    /\ heart_rate_var = "Heart Rate: -- bpm"
    /\ \E p \in Paths : wpc[p] \in {"sleep", "getsize", "load", "frames"}

\* C14: whatever the file is and however it changes between attempts, the
\* worker (scheduled fairly) reaches its terminal position; it never starts
\* more than `retries` attempts, never sleeps more than `retries` times, no
\* exception leaves it, and once done it stays done without a further attempt.
C14_WorkerTerminates ==
    /\ <>(wpc[ThePath] = "done")
    /\ [](\A p \in Paths :
            /\ attempt[p] <= retries
            /\ obs[p].delays <= retries
            /\ wpc[p] # "crashed")
    /\ [][\A p \in Paths :
            wpc[p] = "done" =>
                /\ wpc'[p] = "done"
                /\ attempt'[p] = attempt[p]
                /\ obs'[p].delays = obs[p].delays]_vars

\* The file was empty, then malformed, then valid with a frame the adapter
\* rejects: three attempts, each failing differently, and the worker is done.
C14_Witness ==
    /\ wpc[ThePath] = "done"
    /\ attempt[ThePath] = retries
    /\ obs[ThePath].seen = {"empty", "syntax", "inference"}
    /\ nWrites = 2

\* The worker of q is done and its file was not processed: it ran out of
\* retries or met a fatal error.
Failed(q) == wpc[q] = "done" /\ "success" \notin obs[q].seen

\* A parseable file all of whose entries with vitals the adapter answers.
AllFramesOk(f) ==
    /\ f.kind = "valid"
    /\ \A i \in 1..Len(f.data) : HasVitals(f.data[i]) => f.data[i].adapter = "ok"

\* C15: a File Processor that failed takes nothing from the others.  The
\* queue holds only predictions of frames whose inference succeeded; after a
\* failure the handler can still take an event for any path and start a
\* thread for a new one; and every dispatched valid file, whatever happened
\* to the other files, ends processed with one result per frame.
C15_FailuresStayLocal ==
    /\ [](\A i \in 1..Len(gui_queue) :
            /\ gui_queue[i].heart_rate = "prediction"
            /\ gui_queue[i].frame \in OkFrames(files[gui_queue[i].file].data))
    /\ []((\E q \in Paths : Failed(q)) =>
            \A c \in Callers :
                /\ (hpc[c] = "idle" /\ lock = 0) =>
                      \A p \in Paths : ENABLED OnCreated(c, p, FALSE, TRUE)
                /\ hpc[c] \in {"new", "known"} => ENABLED Dispatch(c))
    /\ \A p \in Paths, q \in Paths :
          (p # q /\ Failed(q) /\ AllFramesOk(files[p]) /\ started[p] = 1)
          ~> (/\ wpc[p] = "done"
              /\ "success" \in obs[p].seen
              /\ \A i \in 1..Len(files[p].data) :
                    obs[p].puts[i] = IF HasVitals(files[p].data[i]) THEN 1 ELSE 0)

\* One file ran out of retries; the other was processed and its result is
\* the only one in the queue.
C15_Witness ==
    \E p \in Paths, q \in Paths :
        /\ p # q
        /\ Failed(q) /\ attempt[q] = retries
        /\ wpc[p] = "done" /\ "success" \in obs[p].seen
        /\ PutCount(p) = 1
        /\ Len(gui_queue) = 1

\* No event has been handled and no worker started.
NothingHandled ==
    /\ processed_files = {}
    /\ lock = 0
    /\ \A c \in Callers : hpc[c] = "idle"
    /\ \A p \in Paths : started[p] = 0 /\ wpc[p] = "none"
    /\ gui_queue = <<>>

\* C16: start_observer starts the watcher exactly when the watched directory
\* exists.  When it does not, start_observer returns for good: no event is
\* ever handled, no worker dispatched, and the queue stays empty whatever
\* files appear.
C16_NoDirectoryNoWatcher ==
    /\ [](observer # "new" => (observer = "running" <=> directory_exists))
    /\ [](observer # "running" => NothingHandled)
    /\ [][observer = "returned" => observer' = "returned"]_vars

\* start_observer has returned on a missing directory and files have been
\* written since.
C16_Witness ==
    /\ ~directory_exists
    /\ observer = "returned"
    /\ nWrites = MaxWrites
    /\ \E p \in Paths : files[p].kind = "valid" /\ files[p].data # <<>>

\* C17: the consumer never stops polling (no run of process_gui_queue ends
\* without scheduling the next), and every result it has taken has been
\* forwarded: the labels show the latest one, with a numeric breath rate.
C17_ConsumerForwardsEverything ==
    /\ cpc # "dead"
    /\ got_log # <<>> =>
          /\ heart_rate_var = "Heart Rate: prediction bpm"
          /\ breath_rate_var \in {"Breath Rate: 72.00 breaths/min",
                                  "Breath Rate: 0.00 breaths/min"}

\* The vitals record of the frame a queued result was computed from.
FrameOf(r) == files[r.file].data[r.frame].vitals

\* C18: every result on the queue carries a numeric breath rate: the frame's
\* own when the frame has one, 0.0 when the frame's breathRate is missing or
\* null; None is never enqueued.
C18_BreathRateNeverNull ==
    \A i \in 1..Len(gui_queue) :
        /\ gui_queue[i].breath_rate # "None"
        /\ gui_queue[i].breath_rate =
              IF Get(FrameOf(gui_queue[i]), "breathRate", "None") # "None"
              THEN FrameOf(gui_queue[i])["breathRate"]
              ELSE "0.0"

\* The frame indices of the last k results path p has on the queue, in
\* queue order.
LastFrames(p, k) ==
    LET mine == SelectSeq(gui_queue, LAMBDA r : r.file = p)
    IN  [i \in 1..k |-> mine[Len(mine) - k + i].frame]

\* C19: an entry without a vitals record is passed over and the entry loop
\* goes on with the next entry, nothing being enqueued for it; while the loop
\* runs, the results this attempt has enqueued are those of all the entries
\* with vitals before the current position, in the order of the entries.
C19_SkipKeepsOrder ==
    /\ [](\A p \in Paths :
            wpc[p] = "frames" =>
                LET k == Cardinality(obs[p].putNow)
                IN  /\ obs[p].putNow =
                          {j \in 1..(idx[p] - 1) : HasVitals(data[p][j])}
                    /\ \A i \in 1..k : LastFrames(p, k)[i] \in obs[p].putNow
                    /\ \A i \in 1..k, j \in 1..k :
                          i < j => LastFrames(p, k)[i] < LastFrames(p, k)[j])
    /\ [][\A p \in Paths :
            (/\ wpc[p] = "frames"
             /\ idx[p] <= Len(data[p])
             /\ ~HasVitals(data[p][idx[p]])
             /\ <<wpc[p], idx[p]>>' # <<wpc[p], idx[p]>>) =>
                /\ wpc'[p] = "frames"
                /\ idx'[p] = idx[p] + 1
                /\ data'[p] = data[p]
                /\ gui_queue' = gui_queue]_vars

\* The first attempt on a file of three entries, the middle one without
\* vitals, has gone through all of them: the queue holds the results of
\* entries 1 and 3, in that order.
C19_Witness ==
    /\ wpc[ThePath] = "frames"
    /\ attempt[ThePath] = 1
    /\ Len(data[ThePath]) = 3
    /\ idx[ThePath] = 4
    /\ HasVitals(data[ThePath][1])
    /\ ~HasVitals(data[ThePath][2])
    /\ HasVitals(data[ThePath][3])
    /\ [i \in 1..Len(gui_queue) |-> gui_queue[i].frame] = <<1, 3>>

\* The positions of a worker that has started and not finished.
InFlight(p) == wpc[p] \in {"sleep", "getsize", "load", "frames"}

\* C20: wherever the workers are, in their delay or elsewhere, the lock is
\* held by no worker: it is held only by a caller inside the `with` block of
\* on_created and is free again once that caller has left it, having started
\* the thread.  A caller outside the block can take an event for any path as
\* soon as the lock is free, a caller inside it can go on, and every worker
\* in flight can take its next step.
C20_DelayBlocksOnlyItsWorker ==
    /\ lock # 0 => hpc[lock] \in {"locked", "new", "known"}
    /\ \A c \in Callers :
          /\ hpc[c] = "idle" => lock # c
          /\ (hpc[c] = "idle" /\ lock = 0) =>
                \A p \in Paths : ENABLED OnCreated(c, p, FALSE, TRUE)
          /\ hpc[c] = "locked" => ENABLED Test(c)
          /\ hpc[c] \in {"new", "known"} => ENABLED Dispatch(c)
    /\ \A p \in Paths : InFlight(p) => ENABLED Worker(p)

\* One worker is in the delay before its second or third attempt while a
\* caller, inside the lock, has found another path new.
C20_Witness ==
    \E p \in Paths, q \in Paths, c \in Callers :
        /\ p # q
        /\ wpc[p] = "sleep" /\ attempt[p] >= 2
        /\ hpc[c] = "new" /\ hpath[c] = q
        /\ lock = c

====
